---- MODULE Spec2Model ----
(***************************************************************************)
(* Agent loop scheduler (utils/main_loop.ts) and clip recording manager    *)
(* (utils/recordingManager.ts) of Observer, with the prompt pre-processor  *)
(* (utils/pre-processor.ts) and the response post-processor                *)
(* (utils/post-processor.ts) an iteration calls.                           *)
(*                                                                         *)
(* JavaScript runs one task at a time: an async function runs without      *)
(* interruption up to its next await.  Every action below is one such      *)
(* uninterrupted segment: a call up to its first await, or the resumption  *)
(* of a suspended call up to its next await or its return.                 *)
(***************************************************************************)
EXTENDS Integers, Sequences, FiniteSets, Bags, TLC

\* ---- bounds of the model ----
MaxCalls == 2        \* suspended async calls at once: starts, iterations, finalizations

\* ---- the universe ----
Agents == {"a1", "a2"}
Sources == {"screen", "camera"}             \* RecordableStreamType

\* streamRequirementsMap applied to the agent's system_prompt:
\* a1's prompt holds $SCREEN_64, a2's prompt holds no sensor placeholder.
requiredStreams(a) == IF a = "a1" THEN {"screenVideo"} ELSE {}

VARIABLES
  activeLoops,   \* agentId -> loop entry
  leaked,        \* agents with an armed setInterval timer that no loop entry refers to
  tasks,         \* bag of suspended startAgentLoop calls and iterations
  holders,       \* StreamManager: agentId -> stream kinds held for it
  state,         \* RecordingManager.state
  recorders,     \* RecordingManager.recorders: source -> none | recording | inactive
  orphans,       \* sources with a recording MediaRecorder no longer in the map
  ops,           \* bag of suspended stopClip / forceStop calls (awaiting the save jobs)
  out            \* what the last step emitted: log warnings, events, thrown errors

vars == <<activeLoops, leaked, tasks, holders, state, recorders, orphans, ops, out>>

\* The recording manager in detail (chunks, markers, saved clips), for the
\* specifications SpecRec, SpecMark and SpecTwo below.  Spec leaves these
\* variables alone.
VARIABLES
  rec,           \* RecordingManager: state, recorders, chunks, pendingMarkers
  media,         \* the MediaRecorder objects: source -> buffer number -> object
  streams,       \* StreamManager.getCurrentState(): sources with a video stream
  fins,          \* bag of saveAndFinishClip calls suspended at `await Promise.all(saveJobs)`
  saved,         \* the saveRecordingToDb calls the last step made, in order
  nclips,        \* history: saveRecordingToDb calls of the scenario: 0, 1, 2 for more
  marks,         \* history: the markers added; whether marker 1 was added while
                 \* IDLE, and the clips it went to
  hist           \* history: the calls made so far, while they follow a scenario

rvars == <<rec, media, streams, fins, saved, nclips, marks, hist>>

\* The configuration store and one agent's loop as it reads the store, for
\* the specification SpecCfg below.  The other specifications leave these
\* variables alone.
VARIABLES
  store,         \* the configuration store's record of the agent, and its code
  iter           \* the agent's loop: where it is, what it read, its timer's period

cvars == <<store, iter>>

\* One call of postProcess (utils/post-processor.ts), for the specification
\* SpecPost below.
VARIABLES
  pp             \* the call: its code argument, the runtimes it ran, its result

pvars == <<pp>>

\* One call of preProcess (utils/pre-processor.ts), for the specification
\* SpecPre below.
VARIABLES
  asm            \* the call: its locals at the await of a handler, and its result

avars == <<asm>>

\* One agent's iterations from the prompt to their end, with the token
\* supplier of its loop entry, for the specification SpecTok below.
VARIABLES
  itn            \* the entry's isRunning and getToken, the iteration in flight

tvars == <<itn>>

\* One call of startAgentLoop up to the registration, for the specification
\* SpecReq below.
VARIABLES
  req            \* the prompt of the agent, the stream requests the call issued

qvars == <<req>>

\* The memory of one agent in the store and the appendMemory calls of two
\* handlers on it, for the specification SpecMem below.
VARIABLES
  mem            \* the stored memory, and each call: where it is, what it read

mvars == <<mem>>

nvars == <<tvars, qvars, mvars>>
fvars == <<cvars, pvars, avars, nvars>>

\* Buffer numbers: the buffer in the map, and one a suspended call listens to
\* for each call.
Gens == 1..(MaxCalls + 1)
\* The clips marker 1 went to: n sessions (2 for two or more), the last of
\* them on buffer `at` while the program still refers to its recorder.
Unclipped == [at |-> 0, n |-> 0]
\* Of the markers the model follows one, marker 1: pendingMarkers and the
\* clips' markers hold it or not.  The program never looks into a marker, so
\* the others neither change what it does nor where marker 1 goes.
Markers == {1}

\* A MediaRecorder with the array its ondataavailable listener pushes to
\* (chunksForType): n = 1 when it holds timeslice chunks, however many, else
\* 0; final = it holds the flush delivered at stop.
\* status: recording, stopping (stop() was called: recorder.state is
\* 'inactive', the last dataavailable and the stop event are still queued),
\* inactive.  Dead stands for every object the program can no longer reach.
Dead == [status |-> "inactive", n |-> 0, final |-> FALSE]
Fresh == [status |-> "recording", n |-> 0, final |-> FALSE]

\* The calls of the two scenarios.  Once the calls leave them hist only tells
\* whether startClip was among them.
Seq12 == <<"initialize", "handleEndOfLoop", "handleEndOfLoop", "handleEndOfLoop">>
Seq13 == <<"initialize", "handleEndOfLoop", "startClip", "handleEndOfLoop", "stopClip">>
Other == <<"other">>
OtherClip == <<"other", "startClip">>
Started(h) == \E i \in 1..Len(h) : h[i] = "startClip"
Leave(h) == IF h = <<>> THEN h ELSE IF Started(h) THEN OtherClip ELSE Other
IsPrefix(p, q) == Len(p) <= Len(q) /\ SubSeq(q, 1, Len(p)) = p
Follow(h, c) ==
  LET h1 == Append(h, c)
  IN IF IsPrefix(h1, Seq12) \/ IsPrefix(h1, Seq13) THEN h1 ELSE Leave(h1)

RecInit ==
  /\ rec = [state |-> "IDLE",
            recorders |-> [s \in Sources |-> 0],
            chunks |-> [s \in Sources |-> FALSE],
            pendingMarkers |-> {}]
  /\ media = [s \in Sources |-> [g \in Gens |-> Dead]]
  /\ fins = EmptyBag
  /\ saved = <<>>
  /\ nclips = 0
  /\ marks = [added |-> {}, idle |-> FALSE, clipped |-> Unclipped]
  /\ hist = <<>>

\* ---- the configuration store (getAgent, getAgentCode) ----
\* The values a field of the agent's record takes: the one it has at first,
\* and the one an edit gives it.  loop_interval_seconds is one of them.
Versions == {1, 2}
\* What getAgent resolves to: the record as the store holds it at that time.
getAgent(st) == [system_prompt |-> st.system_prompt, model_name |-> st.model_name,
                 loop_interval_seconds |-> st.loop_interval_seconds]
getAgentCode(st) == st.code
NoAgent == [system_prompt |-> 0, model_name |-> 0, loop_interval_seconds |-> 0]
\* The loop of the agent: pc is where it is suspended; agent is the record
\* startAgentLoop read; it and code are what the iteration in flight read;
\* period is the period of the armed timer in ms (0 = no timer); by tells
\* who called the iteration in flight.
CfgInit ==
  /\ store = [system_prompt |-> 1, model_name |-> 1, loop_interval_seconds |-> 1, code |-> 1]
  /\ iter = [pc |-> "stopped", agent |-> NoAgent, it |-> NoAgent, code |-> 0,
             period |-> 0, by |-> "none"]

\* ---- post-processor.ts: no call of postProcess yet ----
PostInit == pp = [pc |-> "none"]

\* ---- pre-processor.ts: no call of preProcess yet ----
PreInit == asm = [pc |-> "none"]

\* ---- executeAgentIteration with a token supplier: no loop entry yet ----
TokInit == itn = [pc |-> "stopped"]

\* ---- startAgentLoop and its stream request: no call yet ----
ReqInit == req = [pc |-> "none"]

\* ---- the agent's memory: nothing stored, no appendMemory call yet ----
MemInit == mem = [pc |-> "none"]

\* A loop entry: isRunning, and intervalId (0 = null, 1 = the handle of an armed
\* timer).  A key missing from the map is NoLoop: every use reads the map as
\* activeLoops[agentId]?.isRunning, which tells a missing entry from a stopped
\* one with a null intervalId in no way.
NoLoop == [isRunning |-> FALSE, intervalId |-> 0]
NewLoop == [isRunning |-> TRUE, intervalId |-> 0]

\* Where a suspended call waits.  Awaits that follow one another and touch
\* nothing shared in between are one position:
\*   starting  startAgentLoop awaits getAgent, then requestStreamsForAgent
\*   flight    an iteration awaits getAgent, getAgentCode, preProcess, getToken,
\*             then sendPrompt
\*   post      an iteration awaits postProcess (the handler code is running)
\*   arm       startAgentLoop resumes from `await executeAgentIteration`
IterPcs == {"flight", "post"}

\* ---- small helpers ----
TasksOf(a) == {t \in BagToSet(tasks) : t.agent = a}
\* How many tasks of the bag are in the set S of task values.
Put(B, t) == B (+) SetToBag({t})
Drop(B, t) == B (-) SetToBag({t})

\* ---- main_loop.ts: queries ----
isAgentLoopRunning(loops, a) == loops[a].isRunning
getRunningAgentIds(loops) == {a \in Agents : loops[a].isRunning}

\* ---- StreamManager (collaborator) ----
\* getCurrentState(): a stream kind is live while some agent holds it.
StreamOf(src) == IF src = "screen" THEN "screenVideo" ELSE "camera"
Live(h, src) == \E a \in Agents : StreamOf(src) \in h[a]
requestStreamsForAgent(h, a, ks) == [h EXCEPT ![a] = @ \cup ks]
releaseStreamsForAgent(h, a) == [h EXCEPT ![a] = {}]

\* The recording manager's fields as one value.
RM == [state |-> state, recorders |-> recorders, orphans |-> orphans]

\* When the last holder of a stream releases it the hardware capture stops,
\* its tracks end and every MediaRecorder on it goes inactive by itself.
TracksEnded(R, h) ==
  [R EXCEPT !.recorders = [s \in Sources |->
                             IF R.recorders[s] = "recording" /\ ~Live(h, s)
                             THEN "inactive" ELSE R.recorders[s]],
            !.orphans = {s \in R.orphans : Live(h, s)}]

\* ---- recordingManager.ts ----
size(R) == Cardinality({s \in Sources : R.recorders[s] # "none"})

discardCurrentBuffer(R) ==
  [R EXCEPT !.recorders = [s \in Sources |->
                             IF R.recorders[s] = "recording" THEN "inactive"
                             ELSE R.recorders[s]]]

discardAndShutdown(R) == [discardCurrentBuffer(R) EXCEPT !.state = "IDLE"]

startNewBuffer(R, h) ==
  LET R1 == IF size(R) > 0 THEN discardAndShutdown(R) ELSE R
      started == {s \in Sources : Live(h, s)}
  IN [R1 EXCEPT !.recorders = [s \in Sources |->
                                 IF s \in started THEN "recording" ELSE R1.recorders[s]],
                !.state = IF started # {} THEN "BUFFERING" ELSE "IDLE"]

initialize(R, h) == IF R.state = "IDLE" THEN startNewBuffer(R, h) ELSE R

handleEndOfLoop(R, h) ==
  IF R.state = "BUFFERING" THEN startNewBuffer(discardCurrentBuffer(R), h) ELSE R

startClip(R) == IF R.state = "BUFFERING" THEN [R EXCEPT !.state = "RECORDING"] ELSE R

\* saveAndFinishClip up to its await: every recorder of the map is stopped.
saveAndFinishClipBegin(R) == discardCurrentBuffer(R)
\* saveAndFinishClip after its await: the maps are cleared; a recorder that a
\* concurrent startNewBuffer put there meanwhile is dropped while recording.
saveAndFinishClipEnd(R) ==
  [R EXCEPT !.orphans = @ \cup {s \in Sources : R.recorders[s] = "recording"},
            !.recorders = [s \in Sources |-> "none"]]

\* The save jobs resolve at once when there is no recorder, or when the
\* controller is IDLE (the chunk map was cleared by the discard that made it so).
SavesAtOnce(R) == size(R) = 0 \/ R.state = "IDLE"

\* forceStop that stops the buffering recorders but forgets to set IDLE.
forceStop_KeepsState(R) ==
  IF R.state = "BUFFERING"
  THEN [rm |-> discardCurrentBuffer(R), op |-> "none"]
  ELSE IF SavesAtOnce(R)
       THEN [rm |-> [saveAndFinishClipEnd(saveAndFinishClipBegin(R)) EXCEPT !.state = "IDLE"],
             op |-> "none"]
       ELSE [rm |-> saveAndFinishClipBegin(R), op |-> "forceStop"]

\* forceStop up to its first await.  op names the call left suspended, if any.
forceStop(R) ==
  IF R.state = "BUFFERING"
  THEN [rm |-> [discardAndShutdown(R) EXCEPT !.state = "IDLE"], op |-> "none"]
  ELSE IF SavesAtOnce(R)
       THEN [rm |-> [saveAndFinishClipEnd(saveAndFinishClipBegin(R)) EXCEPT !.state = "IDLE"],
             op |-> "none"]
       ELSE [rm |-> saveAndFinishClipBegin(R), op |-> "forceStop"]

\* stopClip up to its first await.
stopClip(R, h) ==
  IF R.state = "RECORDING"
  THEN IF size(R) = 0
       THEN [rm |-> startNewBuffer(R, h), op |-> "none"]
       ELSE [rm |-> saveAndFinishClipBegin(R), op |-> "stopClip"]
  ELSE [rm |-> R, op |-> "none"]

\* The rest of a suspended stopClip / forceStop once its save jobs are done.
finishOp(o, R, h) ==
  LET R1 == saveAndFinishClipEnd(R)
  IN IF o = "stopClip" THEN startNewBuffer(R1, h) ELSE [R1 EXCEPT !.state = "IDLE"]

\* ---- what a step emits ----
Warn(a, what) == [kind |-> "warn", agent |-> a, what |-> what, by |-> ""]
Status(a, s, by) == [kind |-> "status", agent |-> a, what |-> s, by |-> by]
Quota(a) == [kind |-> "quotaExceeded", agent |-> a, what |-> "", by |-> ""]
Thrown(a) == [kind |-> "throw", agent |-> a, what |-> "", by |-> "start"]
\* recordingManager.handleEndOfLoop() is called from the iteration of agent a.
EndOfLoop(a) == [kind |-> "endOfLoop", agent |-> a, what |-> "", by |-> "iteration"]

\* stopAgentLoop that clears the timer and releases the streams but leaves
\* the entry's isRunning flag set.
stopAgentLoop_KeepsRunning(a, loops, h, R) ==
  IF isAgentLoopRunning(loops, a)
  THEN LET h1 == releaseStreamsForAgent(h, a)
           loops1 == [loops EXCEPT ![a] = [@ EXCEPT !.intervalId = 0]]
           R1 == TracksEnded(R, h1)
       IN [loops |-> loops1, holders |-> h1, rm |-> R1, op |-> "none",
           out |-> <<Status(a, "stopped", "stop")>>]
  ELSE [loops |-> loops, holders |-> h, rm |-> R, op |-> "none",
        out |-> <<Warn(a, "not running")>>]

\* stopAgentLoop without the isRunning guard: it tears down whatever it finds.
stopAgentLoop_NoGuard(a, loops, h, R) ==
  LET h1 == releaseStreamsForAgent(h, a)
      loops1 == [loops EXCEPT ![a] = [@ EXCEPT !.isRunning = FALSE, !.intervalId = 0]]
      R1 == TracksEnded(R, h1)
      f == IF getRunningAgentIds(loops1) = {}
           THEN forceStop(R1) ELSE [rm |-> R1, op |-> "none"]
  IN [loops |-> loops1, holders |-> h1, rm |-> f.rm, op |-> f.op,
      out |-> <<Status(a, "stopped", "stop")>>]

\* ---- main_loop.ts: stopAgentLoop (it has no await: it runs in one piece) ----
\* The values it leaves, given the world it is called in.
stopAgentLoop(a, loops, h, R) ==
  IF isAgentLoopRunning(loops, a)
  THEN LET h1 == releaseStreamsForAgent(h, a)
           \* clearInterval(loop.intervalId) when it is not null
           loops1 == [loops EXCEPT ![a] = [@ EXCEPT !.isRunning = FALSE, !.intervalId = 0]]
           R1 == TracksEnded(R, h1)
           f == IF getRunningAgentIds(loops1) = {}
                THEN forceStop(R1) ELSE [rm |-> R1, op |-> "none"]
       IN [loops |-> loops1, holders |-> h1, rm |-> f.rm, op |-> f.op,
           out |-> <<Status(a, "stopped", "stop")>>]
  ELSE [loops |-> loops, holders |-> h, rm |-> R, op |-> "none",
        out |-> <<Warn(a, "not running")>>]

SetRM(R) ==
  \E r \in {R} :
    /\ state' = r.state
    /\ recorders' = r.recorders
    /\ orphans' = r.orphans

NumCalls == BagCardinality(tasks) + BagCardinality(ops)
SpawnOp(o) == ops' = IF o = "none" THEN ops ELSE Put(ops, o)
CanSpawn(o) == o = "none" \/ NumCalls < MaxCalls

\* ---- Init: the module-level state of a freshly loaded page ----
Init ==
  /\ activeLoops = [a \in Agents |-> NoLoop]
  /\ leaked = {}
  /\ tasks = EmptyBag
  /\ holders = [a \in Agents |-> {}]
  /\ state = "IDLE"
  /\ recorders = [s \in Sources |-> "none"]
  /\ orphans = {}
  /\ ops = EmptyBag
  /\ out = <<>>
  /\ RecInit /\ streams = {}
  /\ CfgInit
  /\ PostInit
  /\ PreInit
  /\ TokInit
  /\ ReqInit
  /\ MemInit

\* ---- startAgentLoop ----
StartTask(a, first) == [agent |-> a, kind |-> "start", pc |-> "starting", first |-> first]

\* The call, up to `await getAgent`.
StartAgentLoop(a) ==
  IF isAgentLoopRunning(activeLoops, a)
  THEN UNCHANGED <<vars, rvars, fvars>>     \* logs "Agent is already running" and returns
  ELSE /\ NumCalls < MaxCalls
       /\ tasks' = Put(tasks, StartTask(a, getRunningAgentIds(activeLoops) = {}))
       /\ out' = <<>> /\ UNCHANGED <<rvars, fvars>>
       /\ UNCHANGED <<activeLoops, leaked, holders, state, recorders, orphans, ops>>

\* The catch block: release, dispatch "stopped", rethrow.
StartFail(t, h, R) ==
  LET h1 == releaseStreamsForAgent(h, t.agent)
  IN /\ holders' = h1
     /\ SetRM(TracksEnded(R, h1))
     /\ tasks' = Drop(tasks, t)
     /\ out' = <<Status(t.agent, "stopped", "start"), Thrown(t.agent)>> /\ UNCHANGED <<rvars, fvars>>
     /\ UNCHANGED <<activeLoops, leaked, ops>>

\* getAgent resolves to null or rejects.
StartAgentNotFound(t) ==
  /\ t.pc = "starting"
  /\ StartFail(t, holders, RM)

\* getAgent resolved; requestStreamsForAgent rejects (nothing is granted).
StartStreamsRejected(t) ==
  /\ t.pc = "starting"
  /\ requiredStreams(t.agent) # {}
  /\ StartFail(t, holders, RM)

\* getAgent resolved and the streams are granted; `new MediaRecorder` throws
\* inside initialize -> startNewBuffer.
StartInitializeThrows(t) ==
  LET h == requestStreamsForAgent(holders, t.agent, requiredStreams(t.agent))
  IN /\ t.pc = "starting"
     /\ t.first /\ state = "IDLE" /\ \E s \in Sources : Live(h, s)
     /\ StartFail(t, h, IF size(RM) > 0 THEN discardAndShutdown(RM) ELSE RM)

\* getAgent resolved and the streams are granted.  In one piece: initialize
\* the recorder if first, register the entry, dispatch "running", enter
\* executeAgentIteration up to its first await.
StartRegisters(t) ==
  LET a == t.agent
      h == requestStreamsForAgent(holders, a, requiredStreams(a))
  IN /\ t.pc = "starting"
     /\ SetRM(IF t.first THEN initialize(RM, h) ELSE RM)
     /\ holders' = h
     /\ activeLoops' = [activeLoops EXCEPT ![a] = NewLoop]
     /\ leaked' = IF activeLoops[a].intervalId # 0 THEN leaked \cup {a} ELSE leaked
     /\ tasks' = Put(Drop(tasks, t), [t EXCEPT !.pc = "flight", !.first = FALSE])
     /\ out' = <<Status(a, "running", "start")>> /\ UNCHANGED <<rvars, fvars>>
     /\ UNCHANGED ops

\* ---- executeAgentIteration ----
TickTask(a) == [agent |-> a, kind |-> "tick", pc |-> "flight", first |-> FALSE]

\* executeAgentIteration returns to its caller: the setInterval callback
\* ends, startAgentLoop is resumed.
IterationReturns(t) ==
  tasks' = IF t.kind = "start" THEN Put(Drop(tasks, t), [t EXCEPT !.pc = "arm"])
           ELSE Drop(tasks, t)

\* startAgentLoop after the first iteration: arm the interval timer, store
\* its handle in the entry (over the handle that may be there), return.
StartArmsTimer(t) ==
  /\ t.pc = "arm"
  /\ activeLoops' = [activeLoops EXCEPT ![t.agent] = [@ EXCEPT !.intervalId = 1]]
  /\ leaked' = IF activeLoops[t.agent].intervalId # 0 THEN leaked \cup {t.agent} ELSE leaked
  /\ tasks' = Drop(tasks, t)
  /\ out' = <<>> /\ UNCHANGED <<rvars, fvars>>
  /\ UNCHANGED <<holders, state, recorders, orphans, ops>>

\* A catch block that treats every error as fatal to the loop: it stops the
\* agent as the UnauthorizedError branch does.
IterationFails_StopsLoop(t) ==
  \E r \in {stopAgentLoop(t.agent, activeLoops, holders, RM)} :
     /\ CanSpawn(r.op)
     /\ IterationReturns(t)
     /\ activeLoops' = r.loops
     /\ holders' = r.holders
     /\ SetRM(r.rm)
     /\ SpawnOp(r.op)
     /\ out' = <<Warn(t.agent, "iteration failed")>> /\ UNCHANGED <<rvars, fvars>>
     /\ UNCHANGED leaked

\* Variant: handleEndOfLoop is called in the try block, when the handler
\* reported success, instead of the finally block.
IterPost_NotifiesOnSuccess(t, ok) ==
  LET notify == ok /\ isAgentLoopRunning(activeLoops, t.agent)
  IN /\ t.pc = "post"
     /\ IterationReturns(t)
     /\ SetRM(IF notify THEN handleEndOfLoop(RM, holders) ELSE RM)
     /\ out' = (IF notify THEN <<EndOfLoop(t.agent)>> ELSE <<>>)
     /\ UNCHANGED <<rvars, fvars>>
     /\ UNCHANGED <<activeLoops, leaked, holders, ops>>

\* The catch block for an error that is not UnauthorizedError: log it.
IterationFails(t) ==
  /\ IterationReturns(t)
  /\ out' = <<Warn(t.agent, "iteration failed")>> /\ UNCHANGED <<rvars, fvars>>
  /\ UNCHANGED <<activeLoops, leaked, holders, state, recorders, orphans, ops>>

\* An await before the response arrives rejects with an ordinary error:
\* the agent is gone, preProcess or sendPrompt fails.
IterError(t) ==
  /\ t.pc = "flight"
  /\ IterationFails(t)

\* sendPrompt rejects with UnauthorizedError: the catch block calls
\* stopAgentLoop, then dispatches "quotaExceeded".
IterUnauthorized(t) ==
  /\ t.pc = "flight"
  /\ \E r \in {stopAgentLoop(t.agent, activeLoops, holders, RM)} :
     /\ CanSpawn(r.op)
     /\ IterationReturns(t)
     /\ activeLoops' = r.loops
     /\ holders' = r.holders
     /\ SetRM(r.rm)
     /\ SpawnOp(r.op)
     /\ out' = r.out \o <<Quota(t.agent)>> /\ UNCHANGED <<rvars, fvars>>
     /\ UNCHANGED leaked

\* sendPrompt resolves: the response is handed to postProcess.
IterDispatch(t) ==
  /\ t.pc = "flight"
  /\ tasks' = Put(Drop(tasks, t), [t EXCEPT !.pc = "post"])
  /\ out' = <<>> /\ UNCHANGED <<rvars, fvars>>
  /\ UNCHANGED <<activeLoops, leaked, holders, state, recorders, orphans, ops>>

\* `await postProcess` resolves to ok: false when the handler failed, which
\* postProcess catches (had it rejected, the catch block would log it).  The
\* result is not looked at; the finally block notifies the recorder if the
\* agent is running.
IterPost(t, ok) ==
  /\ t.pc = "post"
  /\ IterationReturns(t)
  /\ SetRM(IF isAgentLoopRunning(activeLoops, t.agent)
           THEN handleEndOfLoop(RM, holders) ELSE RM)
  /\ out' = (IF isAgentLoopRunning(activeLoops, t.agent)
             THEN <<EndOfLoop(t.agent)>> ELSE <<>>)
  /\ UNCHANGED <<rvars, fvars>>
  /\ UNCHANGED <<activeLoops, leaked, holders, ops>>

\* The handler code calls startClip() / stopClip() (handlers/utils.ts).
HandlerStartClip(t) ==
  /\ t.pc = "post"
  /\ SetRM(startClip(RM))
  /\ out' = <<>> /\ UNCHANGED <<rvars, fvars>>
  /\ UNCHANGED <<activeLoops, leaked, tasks, holders, ops>>

HandlerStopClip(t) ==
  /\ t.pc = "post"
  /\ \E r \in {stopClip(RM, holders)} :
     /\ CanSpawn(r.op)
     /\ SetRM(r.rm)
     /\ SpawnOp(r.op)
     /\ out' = <<>> /\ UNCHANGED <<rvars, fvars>>
     /\ UNCHANGED <<activeLoops, leaked, tasks, holders>>

\* A suspended stopClip / forceStop resumes: its save jobs are done.
FinishOp(o) ==
  /\ SetRM(finishOp(o, RM, holders))
  /\ ops' = Drop(ops, o)
  /\ out' = <<>> /\ UNCHANGED <<rvars, fvars>>
  /\ UNCHANGED <<activeLoops, leaked, tasks, holders>>

\* ---- an interval timer of the agent fires: the setInterval callback ----
HasTimer(a) == activeLoops[a].intervalId # 0 \/ a \in leaked
Tick(a) ==
  /\ HasTimer(a)
  /\ isAgentLoopRunning(activeLoops, a)
  /\ NumCalls < MaxCalls
  /\ tasks' = Put(tasks, TickTask(a))
  /\ out' = <<>> /\ UNCHANGED <<rvars, fvars>>
  /\ UNCHANGED <<activeLoops, leaked, holders, state, recorders, orphans, ops>>

\* ---- stopAgentLoop called by the UI or by a handler's stopAgent ----
StopAgentLoop(a) ==
  \E r \in {stopAgentLoop(a, activeLoops, holders, RM)} :
     /\ CanSpawn(r.op)
     /\ activeLoops' = r.loops
     /\ holders' = r.holders
     /\ SetRM(r.rm)
     /\ SpawnOp(r.op)
     /\ out' = r.out /\ UNCHANGED <<rvars, fvars>>
     /\ UNCHANGED <<leaked, tasks>>

Next ==
  \/ \E a \in Agents : StartAgentLoop(a)
  \/ \E a \in Agents : StopAgentLoop(a)
  \/ \E a \in Agents : Tick(a)
  \/ \E t \in BagToSet(tasks) : StartAgentNotFound(t)
  \/ \E t \in BagToSet(tasks) : StartStreamsRejected(t)
  \/ \E t \in BagToSet(tasks) : StartInitializeThrows(t)
  \/ \E t \in BagToSet(tasks) : StartRegisters(t)
  \/ \E t \in BagToSet(tasks) : StartArmsTimer(t)
  \/ \E t \in BagToSet(tasks) : IterError(t)
  \/ \E t \in BagToSet(tasks) : IterUnauthorized(t)
  \/ \E t \in BagToSet(tasks) : IterDispatch(t)
  \/ \E t \in BagToSet(tasks), ok \in BOOLEAN : IterPost(t, ok)
  \/ \E t \in BagToSet(tasks) : HandlerStartClip(t)
  \/ \E t \in BagToSet(tasks) : HandlerStopClip(t)
  \/ \E o \in BagToSet(ops) : FinishOp(o)

Spec == Init /\ [][Next]_vars

\* ================= recordingManager.ts in detail =================
\* The values the operators below work on: everything but the streams.
\* saved starts empty with every step.
World ==
  [rec |-> rec, media |-> media, fins |-> fins, saved |-> <<>>, nclips |-> nclips,
   marks |-> marks]

InMap(w) == {s \in Sources : w.rec.recorders[s] # 0}      \* keys of this.recorders

\* A suspended saveAndFinishClip: per source, what its save job waits for
\* (stop = the recorder's stop event, save = saveRecordingToDb) or how it
\* resolved (none = nothing to save, saved, failed), and the recorder it
\* listens to.
NewFin(op) ==
  [op |-> op, part |-> [s \in Sources |-> "none"], gen |-> [s \in Sources |-> 0]]
Done(f) == \A s \in Sources : f.part[s] \in {"none", "saved", "failed"}
Listened(w, s, g) == \E f \in BagToSet(w.fins) : f.part[s] = "stop" /\ f.gen[s] = g

\* What the program can no longer tell apart is one value: a recorder that
\* no map entry and no listener refers to, and a stopped recorder of the map
\* whose array this.chunks no longer holds and whose stop event nobody
\* listens to.
Collect(w) ==
  [w EXCEPT
     !.media = [s \in Sources |-> [g \in Gens |->
       LET o == w.media[s][g]
       IN IF Listened(w, s, g) THEN o
          ELSE IF w.rec.recorders[s] = g /\ (o.status = "recording" \/ w.rec.chunks[s])
               THEN o ELSE Dead]],
     !.marks.clipped =
       IF \E s \in Sources : w.rec.recorders[s] = @.at \/ Listened(w, s, @.at)
       THEN @ ELSE [@ EXCEPT !.at = 0]]

\* recorder.stop() on the map's recorder of every source in S.  On an
\* inactive recorder it does nothing.
StopRecorders(w, S) ==
  [w EXCEPT !.media = [s \in Sources |-> [g \in Gens |->
     IF s \in S /\ w.rec.recorders[s] = g /\ w.media[s][g].status = "recording"
     THEN [w.media[s][g] EXCEPT !.status = "stopping"] ELSE w.media[s][g]]]]

\* The numbers of the buffers the program still refers to once the map
\* entries of the sources in S are replaced: by a map entry or by a listener.
\* A new buffer takes the least number not in use.
InUse(w, S) ==
  {g \in Gens : \E s \in Sources : (s \notin S /\ w.rec.recorders[s] = g) \/ Listened(w, s, g)}

\* History of marker 1: a clip of buffer g is saved with the marker in it.
ClippedAt(c, g) ==
  IF c.at = g THEN c ELSE [at |-> g, n |-> IF c.n = 0 THEN 1 ELSE 2]

\* Variant: the recorders are stopped, their arrays stay in this.chunks.
DiscardCurrentBuffer_KeepsChunks(w) == StopRecorders(w, InMap(w))

DiscardCurrentBuffer(w) ==
  LET w1 == [w EXCEPT !.rec.chunks = [s \in Sources |-> FALSE]]
  IN StopRecorders(w1, InMap(w1))

\* Variant: the state is reset, the recorders go on.
DiscardAndShutdown_LeavesRecorders(w) == [w EXCEPT !.rec.state = "IDLE"]

DiscardAndShutdown(w) == [DiscardCurrentBuffer(w) EXCEPT !.rec.state = "IDLE"]

\* live: the sources getCurrentState() has a video stream for.  The map entry
\* of a source that is not live stays as it is.
StartNewBuffer(w, live) ==
  LET w1 == IF InMap(w) # {} THEN DiscardAndShutdown(w) ELSE w
      free == Gens \ InUse(w1, live)
      g == CHOOSE x \in free : \A y \in free : x <= y
  IN IF live = {} THEN [w1 EXCEPT !.rec.state = "IDLE"]
     ELSE [w1 EXCEPT
             !.rec.recorders = [s \in Sources |-> IF s \in live THEN g ELSE @[s]],
             !.rec.chunks = [s \in Sources |-> s \in live \/ @[s]],
             !.media = [s \in Sources |-> IF s \in live THEN [@[s] EXCEPT ![g] = Fresh]
                                          ELSE @[s]],
             !.marks.clipped = IF @.at = g THEN [@ EXCEPT !.at = 0] ELSE @,
             !.rec.state = "BUFFERING"]

Initialize(w, live) == IF w.rec.state = "IDLE" THEN StartNewBuffer(w, live) ELSE w

\* Variant: the buffer is cycled whatever the state is.
HandleEndOfLoop_CyclesAlways(w, live) == StartNewBuffer(DiscardCurrentBuffer(w), live)

HandleEndOfLoop(w, live) ==
  IF w.rec.state = "BUFFERING" THEN StartNewBuffer(DiscardCurrentBuffer(w), live) ELSE w

\* Variant: startClip begins the clip with an empty chunk list.
StartClip_DropsChunks(w) ==
  IF w.rec.state = "BUFFERING"
  THEN [w EXCEPT !.rec.state = "RECORDING", !.rec.chunks = [s \in Sources |-> FALSE]]
  ELSE w

StartClip(w) == IF w.rec.state = "BUFFERING" THEN [w EXCEPT !.rec.state = "RECORDING"] ELSE w

AddMarker(w, x) == [w EXCEPT !.rec.pendingMarkers = @ \cup {x}]

\* One saveRecordingToDb(blob, this.pendingMarkers) call: the blob is made of
\* the chunks the array holds now; waited = the job waited for the stop event.
Clip(s, g, o, ms, waited, op) ==
  [src |-> s, gen |-> g, n |-> o.n, final |-> o.final, markers |-> ms,
   waited |-> waited, op |-> op]

\* finalizeAndSave of the job for source s, on recorder g.  a = [w, f]: the
\* world and the saveAndFinishClip call the job belongs to.
FinalizeAndSave(a, s, g, waited) ==
  LET o == a.w.media[s][g]
      ms == a.w.rec.pendingMarkers
  IN IF o.n = 0 /\ ~o.final
     THEN [a EXCEPT !.f.part[s] = "none"]                \* inactive, no data
     ELSE [w |-> [a.w EXCEPT
                    !.saved = Append(@, Clip(s, g, o, ms, waited, a.f.op)),
                    !.nclips = IF @ = 0 THEN 1 ELSE 2,
                    !.marks.clipped = IF 1 \in ms THEN ClippedAt(@, g) ELSE @],
           f |-> [a.f EXCEPT !.part[s] = "save", !.gen[s] = 0]]

\* Variant: the job stops the recorder and packages at once.
BeginJob_NoWait(a, s) ==
  LET g == a.w.rec.recorders[s]
  IN IF g = 0 \/ ~a.w.rec.chunks[s] THEN a
     ELSE FinalizeAndSave([a EXCEPT !.w = StopRecorders(a.w, {s})], s, g, FALSE)

\* The job saveAndFinishClip makes for source s.  Without an array in
\* this.chunks the job sees [] and an inactive recorder: nothing to save.
BeginJob(a, s) ==
  LET g == a.w.rec.recorders[s]
  IN IF g = 0 THEN a
     ELSE IF a.w.media[s][g].status = "recording"
          THEN [w |-> StopRecorders(a.w, {s}),
                f |-> [a.f EXCEPT !.part[s] = "stop", !.gen[s] = g]]
          ELSE IF a.w.rec.chunks[s] THEN FinalizeAndSave(a, s, g, FALSE) ELSE a

\* Variant: no caller starts a new buffer.
AfterSave_GoesIdle(w, op, live) == [w EXCEPT !.rec.state = "IDLE"]

\* What the caller of saveAndFinishClip does when it returns.
AfterSave(w, op, live) ==
  IF op = "stopClip" THEN StartNewBuffer(w, live) ELSE [w EXCEPT !.rec.state = "IDLE"]

\* saveAndFinishClip after `await Promise.all(saveJobs)`, then its caller.
Resume(w, op, live) ==
  AfterSave([w EXCEPT !.rec.pendingMarkers = {},
                      !.rec.recorders = [s \in Sources |-> 0],
                      !.rec.chunks = [s \in Sources |-> FALSE]], op, live)

\* saveAndFinishClip called by op.  When no job has anything to wait for the
\* call goes through in one piece.
SaveAndFinishClip(w, op, live) ==
  IF InMap(w) = {} THEN AfterSave(w, op, live)
  ELSE LET a == BeginJob(BeginJob([w |-> w, f |-> NewFin(op)], "screen"), "camera")
       IN IF Done(a.f) THEN Resume(a.w, op, live)
          ELSE [a.w EXCEPT !.fins = Put(@, a.f)]

\* Variant: forceStop saves whatever the state is.
ForceStop_AlwaysSaves(w, live) == SaveAndFinishClip(w, "forceStop", live)

ForceStop(w, live) ==
  IF w.rec.state = "BUFFERING" THEN [DiscardAndShutdown(w) EXCEPT !.rec.state = "IDLE"]
  ELSE SaveAndFinishClip(w, "forceStop", live)

StopClip(w, live) ==
  IF w.rec.state = "RECORDING" THEN SaveAndFinishClip(w, "stopClip", live) ELSE w

\* ---- the steps of SpecRec ----
\* The step leaves the world w and the history h.
SetWorld(w, h) ==
  \E v \in {w} : \E c \in {Collect(v)} :
     /\ BagCardinality(c.fins) <= MaxCalls
     /\ rec' = c.rec /\ media' = c.media /\ fins' = c.fins
     /\ saved' = c.saved /\ marks' = c.marks
     /\ hist' = h /\ nclips' = IF h = Leave(h) THEN 0 ELSE c.nclips
     /\ UNCHANGED <<vars, streams, fvars>>

\* A call c on the recording manager that leaves the world w.
Call(w, c) == SetWorld(w, Follow(hist, c))

DoInitialize == Call(Initialize(World, streams), "initialize")
DoHandleEndOfLoop == Call(HandleEndOfLoop(World, streams), "handleEndOfLoop")
DoStartClip == Call(StartClip(World), "startClip")
DoStopClip == Call(StopClip(World, streams), "stopClip")
DoForceStop == Call(ForceStop(World, streams), "forceStop")
DoAddMarker ==
  \/ \E x \in Markers \ marks.added :
       LET w == [World EXCEPT !.marks.added = @ \cup {x},
                              !.marks.idle = rec.state = "IDLE"]
       IN Call(AddMarker(w, x), "addMarker")
  \/ Call(World, "addMarker")                   \* another marker

\* An event or a promise settles and leaves the world w.
Settle(w) == SetWorld(w, hist)

\* The timeslice of a recording MediaRecorder ends: ondataavailable pushes a chunk.
DataAvailable(s, g) ==
  /\ media[s][g].status = "recording" /\ rec.recorders[s] = g
  /\ media[s][g].n = 0
  /\ Settle([World EXCEPT !.media[s][g].n = 1])

\* The task stop() queued runs: the last dataavailable (the flush, pushed to
\* the array), then the stop event, whose listener is finalizeAndSave.
StopEvent(s, g) ==
  LET w == [World EXCEPT !.media[s][g] = [@ EXCEPT !.status = "inactive", !.final = TRUE]]
      L == {f \in BagToSet(fins) : f.part[s] = "stop" /\ f.gen[s] = g}
  IN /\ media[s][g].status = "stopping"
     /\ IF L = {} THEN Settle(w)
        ELSE LET f == CHOOSE f \in L : TRUE
                 a == FinalizeAndSave([w |-> w, f |-> f], s, g, TRUE)
             IN Settle([a.w EXCEPT !.fins = Put(Drop(@, f), a.f)])

\* The job of f for source s resolves after its save.  With its last job
\* the suspended saveAndFinishClip resumes.
JobSettles(w, f, s, how) ==
  LET f1 == [f EXCEPT !.part[s] = how]
      w1 == [w EXCEPT !.fins = Drop(@, f)]
  IN IF Done(f1) THEN Resume(w1, f.op, streams) ELSE [w1 EXCEPT !.fins = Put(@, f1)]

\* Variant: the rejection is not caught, the job never resolves.
JobRejects_Hangs(w, f, s) ==
  [w EXCEPT !.fins = Put(Drop(@, f), [f EXCEPT !.part[s] = "failed"])]

\* saveRecordingToDb rejects: the rejection is caught and logged, the job
\* resolves.
JobRejects(w, f, s) == JobSettles(w, f, s, "failed")

SaveResolves(f, s) == f.part[s] = "save" /\ Settle(JobSettles(World, f, s, "saved"))
SaveRejects(f, s) == f.part[s] = "save" /\ Settle(JobRejects(World, f, s))

\* ---- the streams come and go (StreamManager) ----
StreamChange(S) ==
  /\ streams' = S
  /\ hist' = Leave(hist) /\ nclips' = 0
  /\ saved' = <<>>
  /\ UNCHANGED <<vars, rec, fins, fvars>>

\* The sensors the agents of SpecRec ask for.
Recorded == {"screen"}

StreamAppears(s) ==
  /\ s \in Recorded /\ s \notin streams
  /\ StreamChange(streams \cup {s})
  /\ UNCHANGED <<media, marks>>

\* The tracks of the stream end: every MediaRecorder on it stops by itself,
\* its flush delivered.
StreamDisappears(s) ==
  LET w == [World EXCEPT !.media[s] = [g \in Gens |->
              IF @[g].status = "recording"
              THEN [@[g] EXCEPT !.status = "inactive", !.final = TRUE] ELSE @[g]]]
  IN /\ s \in streams
     /\ StreamChange(streams \ {s})
     /\ media' = Collect(w).media /\ marks' = Collect(w).marks

NextRec ==
  \/ DoInitialize
  \/ DoHandleEndOfLoop
  \/ DoStartClip
  \/ DoStopClip
  \/ DoForceStop
  \/ \E s \in Sources, g \in Gens : DataAvailable(s, g)
  \/ \E s \in Sources, g \in Gens : StopEvent(s, g)
  \/ \E f \in BagToSet(fins), s \in Sources : SaveResolves(f, s)
  \/ \E f \in BagToSet(fins), s \in Sources : SaveRejects(f, s)
  \/ \E s \in Sources : StreamAppears(s)
  \/ \E s \in Sources : StreamDisappears(s)

SpecRec == Init /\ [][NextRec]_<<vars, rvars>>

\* The recording manager with markers, on a stream that stays.
NextMark ==
  \/ DoInitialize
  \/ DoHandleEndOfLoop
  \/ DoStartClip
  \/ DoStopClip
  \/ DoForceStop
  \/ DoAddMarker
  \/ \E s \in Sources, g \in Gens : DataAvailable(s, g)
  \/ \E s \in Sources, g \in Gens : StopEvent(s, g)
  \/ \E f \in BagToSet(fins), s \in Sources : SaveResolves(f, s)
  \/ \E f \in BagToSet(fins), s \in Sources : SaveRejects(f, s)
  \/ \E s \in Sources : StreamAppears(s)

SpecMark == Init /\ [][NextMark]_<<vars, rvars>>

\* The recording manager of agents that record the screen and the camera,
\* once both streams are granted, under a caller that awaits each call
\* before it makes the next.
StreamsGranted ==
  /\ streams = {}
  /\ StreamChange(Sources)
  /\ UNCHANGED <<media, marks>>

NextTwo ==
  \/ fins = EmptyBag /\ DoInitialize
  \/ fins = EmptyBag /\ DoHandleEndOfLoop
  \/ fins = EmptyBag /\ DoStartClip
  \/ fins = EmptyBag /\ DoStopClip
  \/ fins = EmptyBag /\ DoForceStop
  \/ \E s \in Sources, g \in Gens : DataAvailable(s, g)
  \/ \E s \in Sources, g \in Gens : StopEvent(s, g)
  \/ \E f \in BagToSet(fins), s \in Sources : SaveResolves(f, s)
  \/ \E f \in BagToSet(fins), s \in Sources : SaveRejects(f, s)
  \/ StreamsGranted

SpecTwo == Init /\ [][NextTwo]_<<vars, rvars>>

\* ================= the agent's record read by the loop =================
\* One agent, one startAgentLoop call at a time, timer ticks that come when
\* no iteration is in flight; the user edits the agent at any time.
SetIter(i) == iter' = i /\ UNCHANGED <<vars, rvars, store, pvars, avars, nvars>>

\* The user saves an edit of one field of the agent, or of its code.
CfgEdit(f, v) ==
  /\ v # store[f]
  /\ store' = [store EXCEPT ![f] = v]
  /\ UNCHANGED <<vars, rvars, iter, pvars, avars, nvars>>

\* startAgentLoop up to `await getAgent`.
CfgStart ==
  /\ iter.pc = "stopped"
  /\ SetIter([iter EXCEPT !.pc = "starting"])

\* getAgent resolves: startAgentLoop keeps the record, registers the entry
\* and enters executeAgentIteration up to its `await getAgent`.
CfgStartReads ==
  /\ iter.pc = "starting"
  /\ SetIter([iter EXCEPT !.agent = getAgent(store), !.pc = "getAgent", !.by = "start"])

\* executeAgentIteration: getAgent resolves, up to `await getAgentCode`.
CfgIterReadsAgent ==
  /\ iter.pc = "getAgent"
  /\ SetIter([iter EXCEPT !.it = getAgent(store), !.pc = "getAgentCode"])

\* getAgentCode resolves: the iteration goes on with what it read (preProcess
\* of it.system_prompt, sendPrompt to it.model_name, postProcess of code).
CfgIterReadsCode ==
  /\ iter.pc = "getAgentCode"
  /\ SetIter([iter EXCEPT !.code = getAgentCode(store), !.pc = "run"])

\* The iteration returns, to startAgentLoop or to the timer callback.
CfgIterEnds ==
  /\ iter.pc = "run"
  /\ SetIter([iter EXCEPT !.pc = IF iter.by = "start" THEN "arm" ELSE "idle",
                          !.it = NoAgent, !.code = 0, !.by = "none"])

\* startAgentLoop after the first iteration: setInterval with the interval
\* of the record read before the first iteration.
CfgArms ==
  /\ iter.pc = "arm"
  /\ SetIter([iter EXCEPT !.period = iter.agent.loop_interval_seconds * 1000, !.pc = "idle"])

\* The timer fires: the callback enters executeAgentIteration.
CfgTick ==
  /\ iter.pc = "idle" /\ iter.period # 0
  /\ SetIter([iter EXCEPT !.pc = "getAgent", !.by = "tick"])

\* stopAgentLoop while no iteration is in flight: the timer is cleared.
CfgStop ==
  /\ iter.pc = "idle"
  /\ SetIter([iter EXCEPT !.pc = "stopped", !.period = 0, !.agent = NoAgent])

NextCfg ==
  \/ \E f \in DOMAIN store, v \in Versions : CfgEdit(f, v)
  \/ CfgStart
  \/ CfgStartReads
  \/ CfgIterReadsAgent
  \/ CfgIterReadsCode
  \/ CfgIterEnds
  \/ CfgArms
  \/ CfgTick
  \/ CfgStop

SpecCfg == Init /\ [][NextCfg]_<<vars, rvars, fvars>>

\* ================= postProcess (utils/post-processor.ts) =================
\* Strings are sequences of characters.
WhiteSpace == {" ", "\t", "\n"}          \* what String.prototype.trim removes
PythonMarker == <<"#", "p", "y", "t", "h", "o", "n">>      \* '#python'

RECURSIVE trimStart(_)
trimStart(s) == IF s # <<>> /\ Head(s) \in WhiteSpace THEN trimStart(Tail(s)) ELSE s
RECURSIVE trimEnd(_)
trimEnd(s) ==
  IF s # <<>> /\ s[Len(s)] \in WhiteSpace THEN trimEnd(SubSeq(s, 1, Len(s) - 1)) ELSE s
trim(s) == trimEnd(trimStart(s))
startsWith(s, p) == Len(s) >= Len(p) /\ SubSeq(s, 1, Len(p)) = p

\* The handler codes of the model: some whitespace or none, a first word,
\* and what follows it.
CodeLeads == {<<>>, <<" ">>, <<"\n", "\t">>, <<"/">>}
CodeHeads == {PythonMarker, <<"#", "p", "y", "t", "h", "o">>, <<"#", " ">> \o Tail(PythonMarker),
              <<"#", "P">> \o Tail(Tail(PythonMarker)), Tail(PythonMarker), <<>>}
CodeTails == {<<>>, <<" ">>, <<"\n", "x">>, <<"\n">> \o PythonMarker}
Codes == {l \o h \o t : l \in CodeLeads, h \in CodeHeads, t \in CodeTails}

\* Variant: the marker is looked for in the code as it is, untrimmed.
runtimeOf_Untrimmed(code) ==
  IF startsWith(code, PythonMarker) THEN "executePython" ELSE "executeJavaScript"

\* The branch of postProcess: which runtime is awaited.
runtimeOf(code) ==
  IF startsWith(trim(code), PythonMarker) THEN "executePython" ELSE "executeJavaScript"

SetPost(c) == pp' = c /\ UNCHANGED <<vars, rvars, cvars, avars, nvars>>

\* postProcess is called (the call before, if any, has returned): up to the
\* await of the runtime it chose.
PostProcess(code) ==
  /\ pp.pc \in {"none", "returned"}
  /\ SetPost([pc |-> "await", code |-> code, ran |-> <<runtimeOf(code)>>,
              got |-> "none", result |-> "none"])

\* The runtime resolves to a boolean ("true" or "false"), which postProcess
\* returns.
RuntimeResolves(b) ==
  /\ pp.pc = "await"
  /\ SetPost([pp EXCEPT !.pc = "returned", !.got = b, !.result = b])

\* The runtime rejects: the catch block logs the error and returns false.
RuntimeRejects ==
  /\ pp.pc = "await"
  /\ SetPost([pp EXCEPT !.pc = "returned", !.got = "throws", !.result = "false"])

NextPost ==
  \/ \E code \in Codes : PostProcess(code)
  \/ \E b \in {"true", "false"} : RuntimeResolves(b)
  \/ RuntimeRejects

SpecPost == Init /\ [][NextPost]_<<vars, rvars, fvars>>

\* ================= preProcess (utils/pre-processor.ts) =================
MaxSegments == 3     \* the pieces a prompt of the model is made of, at most

\* Three of the eight processors, in the order of the registry, and the
\* pattern of each: `$` and one letter stand for the source's `$SCREEN_OCR`,
\* `$SCREEN_64` and `$CAMERA`, none of which is the beginning of another.
processors == <<"SCREEN_OCR", "SCREEN_64", "CAMERA">>
Keys == {processors[i] : i \in DOMAIN processors}
Letter(key) ==
  CASE key = "SCREEN_OCR" -> "O" [] key = "SCREEN_64" -> "S" [] key = "CAMERA" -> "C"
regex(key) == <<"$", Letter(key)>>

\* The pieces of a prompt: literal text, a lone `$`, a token that no
\* processor knows, and the placeholders.
Segments == {<<"x">>, <<"$">>, <<"$", "Z">>} \cup {regex(k) : k \in Keys}
RECURSIVE Prompts(_)
Prompts(n) ==
  IF n = 0 THEN {<<>>}
  ELSE LET P == Prompts(n - 1) IN P \cup {p \o s : p \in P, s \in Segments}

\* What a handler resolves to.  It catches what its capture throws, and
\* resolves to a bracketed message then.
Failure(key) ==
  [ok |-> FALSE, replacementText |-> <<"[", Letter(key), "]">>, images |-> <<>>]
\* The text the OCR of the screen may give: shorter than the placeholder or
\* as long, with `$` and the tokens of placeholders in it.
OcrTexts == {<<"y">>, <<"S">>, <<"$", "S">>, <<"$", "O">>}
\* The n-th handler call of preProcess resolves: SCREEN_OCR to the text of
\* the screen, SCREEN_64 and CAMERA to no text and the image captured.
HandlerResults(key, n) ==
  {Failure(key)} \cup
  (IF key = "SCREEN_OCR"
   THEN {[ok |-> TRUE, replacementText |-> t, images |-> <<>>] : t \in OcrTexts}
   ELSE {[ok |-> TRUE, replacementText |-> <<>>, images |-> <<[of |-> key, n |-> n]>>]})

\* regex.exec(str) of a global regex: the index of the first match at or
\* after lastIndex, -1 for null.
exec(pat, str, lastIndex) ==
  LET found == {i \in lastIndex..(Len(str) - Len(pat)) : SubSeq(str, i + 1, i + Len(pat)) = pat}
  IN IF found = {} THEN -1 ELSE CHOOSE i \in found : \A j \in found : i <= j
substring(str, from, to) == SubSeq(str, from + 1, to)

\* After the while loop of a processor: the rest of the string is appended,
\* the next processor starts at index 0.
EndOfPass(a) ==
  [a EXCEPT !.modifiedPrompt = a.tempPrompt \o substring(a.modifiedPrompt, a.currentSearchIndex,
                                                           Len(a.modifiedPrompt)),
            !.key = @ + 1, !.lastIndex = 0, !.currentSearchIndex = 0,
            !.matchIndex = -1, !.tempPrompt = <<>>]

\* preProcess runs up to its next `await processor.handler`, or returns.
RECURSIVE Run(_)
Run(a) ==
  IF a.key > Len(processors)
  THEN [a EXCEPT !.pc = "returned"]
  ELSE LET m == exec(regex(processors[a.key]), a.modifiedPrompt, a.lastIndex)
       IN IF m # -1
          THEN [a EXCEPT !.pc = "handler", !.matchIndex = m,
                         !.tempPrompt = @ \o substring(a.modifiedPrompt, a.currentSearchIndex, m)]
          ELSE Run(EndOfPass(a))

\* Variant: a handler that failed ends the call as the outer catch block
\* does: the prompt as it was given, no images.
AfterHandler_AbortsOnFailure(a, r) ==
  LET next == a.matchIndex + Len(regex(processors[a.key]))
      b == [a EXCEPT !.tempPrompt = @ \o r.replacementText,
                     !.currentSearchIndex = next, !.lastIndex = next, !.matchIndex = -1,
                     !.images = @ \o r.images,
                     !.calls = Append(@, [key |-> processors[a.key], result |-> r])]
  IN IF r.ok THEN Run(b)
     ELSE [b EXCEPT !.pc = "returned", !.modifiedPrompt = a.systemPrompt, !.images = <<>>,
                    !.key = Len(processors) + 1, !.lastIndex = 0,
                    !.currentSearchIndex = 0, !.tempPrompt = <<>>]

\* The handler resolved to r: the replacement is appended, the indices move
\* past the placeholder, the images are appended; then the loop goes on.
AfterHandler(a, r) ==
  LET next == a.matchIndex + Len(regex(processors[a.key]))
      b == [a EXCEPT !.tempPrompt = @ \o r.replacementText,
                     !.currentSearchIndex = next, !.lastIndex = next, !.matchIndex = -1,
                     !.images = @ \o r.images,
                     !.calls = Append(@, [key |-> processors[a.key], result |-> r])]
  IN IF b.lastIndex > Len(b.modifiedPrompt) THEN Run(EndOfPass(b)) ELSE Run(b)

SetPre(a) == asm' = a /\ UNCHANGED <<vars, rvars, cvars, pvars, nvars>>

\* The locals of preProcess as it enters its loop over the processors.
\* Indices are those of the source, counted from 0; matchIndex is -1 when no
\* match is being handled.  calls is the history of the handler calls.
Entered(prompt) ==
  [pc |-> "entered", systemPrompt |-> prompt, modifiedPrompt |-> prompt, key |-> 1,
   lastIndex |-> 0, currentSearchIndex |-> 0, matchIndex |-> -1,
   tempPrompt |-> <<>>, images |-> <<>>, calls |-> <<>>]

\* preProcess is called.  A call takes nothing over from the call before it
\* (the locals are new, regex.lastIndex is set to 0): one call is followed.
PreProcess(prompt) ==
  /\ asm.pc = "none"
  /\ SetPre(Run(Entered(prompt)))

\* The handler awaited resolves.
HandlerReturns ==
  /\ asm.pc = "handler"
  /\ \E r \in HandlerResults(processors[asm.key], Len(asm.calls) + 1) : SetPre(AfterHandler(asm, r))

NextPre ==
  \/ \E prompt \in Prompts(MaxSegments) : PreProcess(prompt)
  \/ HandlerReturns

SpecPre == Init /\ [][NextPre]_<<vars, rvars, fvars>>

\* ================= the stream request of startAgentLoop =================
\* One call of startAgentLoop for an agent that is not running, from the
\* record getAgent resolved to up to the registration of the agent.
\* Three of the six entries of streamRequirementsMap, in the order of the
\* object literal (the order Object.entries gives).
streamRequirementsMap ==
  <<[placeholder |-> regex("SCREEN_64"), streamType |-> "screenVideo"],
    [placeholder |-> regex("SCREEN_OCR"), streamType |-> "screenVideo"],
    [placeholder |-> regex("CAMERA"), streamType |-> "camera"]>>

\* String.prototype.includes
includes(str, pat) == exec(pat, str, 0) # -1

\* Object.entries(streamRequirementsMap).filter(...).map(...): the stream
\* type of every entry whose placeholder the prompt includes, in map order.
requiredStreamsIn(system_prompt) ==
  LET Included(e) == includes(system_prompt, e.placeholder)
      entries == SelectSeq(streamRequirementsMap, Included)
  IN [i \in 1..Len(entries) |-> entries[i].streamType]

SetReq(r) == req' = r /\ UNCHANGED <<vars, rvars, cvars, pvars, avars, tvars, mvars>>

\* getAgent resolves to a record with this prompt: the requirement is
\* computed and, if it is not empty, requestStreamsForAgent is called with
\* it and awaited; else the agent is registered.
ReqStart(system_prompt) ==
  /\ req.pc = "none"
  /\ \E rs \in {requiredStreamsIn(system_prompt)} :
       SetReq([pc |-> IF Len(rs) > 0 THEN "request" ELSE "registered",
               system_prompt |-> system_prompt,
               requests |-> IF Len(rs) > 0 THEN <<rs>> ELSE <<>>,
               held |-> {}])

\* requestStreamsForAgent resolves: the StreamManager holds the stream types
\* of the request for the agent, which is registered.
ReqGranted ==
  /\ req.pc = "request"
  /\ SetReq([req EXCEPT !.pc = "registered",
                        !.held = {req.requests[1][i] : i \in 1..Len(req.requests[1])}])

\* requestStreamsForAgent rejects: the catch block releases the streams.
ReqRejected ==
  /\ req.pc = "request"
  /\ SetReq([req EXCEPT !.pc = "failed", !.held = {}])

\* stopAgentLoop of the registered agent releases its streams.
ReqStop ==
  /\ req.pc = "registered"
  /\ SetReq([req EXCEPT !.pc = "stopped", !.held = {}])

NextReq ==
  \/ \E system_prompt \in Prompts(MaxSegments) : ReqStart(system_prompt)
  \/ ReqGranted
  \/ ReqRejected
  \/ ReqStop

SpecReq == Init /\ [][NextReq]_<<vars, rvars, fvars>>

\* ================= the token supplier of an iteration =================
\* One agent, started with a token supplier (getToken) or without; its
\* iterations one after the other, each from the prompt on.
MaxIterations == 2   \* iterations the agent begins

undefined == "undefined"
\* What the supplier resolves to: a token, or undefined.
Tokens == {"t1", "t2"}
\* The calls an iteration makes, in order: getToken(), Logger.warn of the
\* token failure, sendPrompt(..., token), postProcess, handleEndOfLoop,
\* stopAgentLoop, the quotaExceeded event, Logger.error of the iteration.
Made(name) == [call |-> name, token |-> "-"]
SendPrompt(token) == [call |-> "sendPrompt", token |-> token]

SetItn(i) == itn' = i /\ UNCHANGED <<vars, rvars, cvars, pvars, avars, qvars, mvars>>

\* startAgentLoop registers the entry with the supplier it was given, if any.
TokStart(g) ==
  /\ itn.pc = "stopped"
  /\ SetItn([pc |-> "idle", isRunning |-> TRUE, getToken |-> g, n |-> 0, calls |-> <<>>])

\* stopAgentLoop, by the user or by a handler.
TokStop ==
  /\ itn.pc # "stopped" /\ itn.isRunning
  /\ SetItn([itn EXCEPT !.isRunning = FALSE])

\* executeAgentIteration from preProcess on, with the entry it read as it
\* began (loopData): the supplier is asked if there is one, else sendPrompt
\* is called with token undefined.
TokIteration ==
  /\ itn.pc = "idle" /\ itn.isRunning /\ itn.n < MaxIterations
  /\ SetItn(IF itn.getToken
            THEN [itn EXCEPT !.pc = "getToken", !.n = @ + 1, !.calls = <<Made("getToken")>>]
            ELSE [itn EXCEPT !.pc = "sendPrompt", !.n = @ + 1,
                             !.calls = <<SendPrompt(undefined)>>])

\* `await loopData.getToken()` resolves to v.
GetTokenResolves(v) ==
  /\ itn.pc = "getToken"
  /\ SetItn([itn EXCEPT !.pc = "sendPrompt", !.calls = Append(@, SendPrompt(v))])

\* Variant: the rejection is not caught where it happens; it ends the
\* iteration in the outer catch block.
getTokenRejected_Fatal(i) == [i EXCEPT !.pc = "idle", !.calls = Append(@, Made("error"))]

\* `await loopData.getToken()` rejects: the inner catch block logs a warning,
\* token stays undefined, sendPrompt is called.
getTokenRejected(i) ==
  [i EXCEPT !.pc = "sendPrompt", !.calls = @ \o <<Made("warn"), SendPrompt(undefined)>>]
GetTokenRejects ==
  /\ itn.pc = "getToken"
  /\ SetItn(getTokenRejected(itn))

\* sendPrompt resolves: the response goes to postProcess.
sendPromptResolved(i) == [i EXCEPT !.pc = "postProcess", !.calls = Append(@, Made("postProcess"))]
SendPromptResolves ==
  /\ itn.pc = "sendPrompt"
  /\ SetItn(sendPromptResolved(itn))

\* sendPrompt rejects: with UnauthorizedError the catch block stops the agent
\* and dispatches quotaExceeded, with another error it logs it.
sendPromptRejected(i, unauthorized) ==
  IF unauthorized
  THEN [i EXCEPT !.pc = "idle", !.isRunning = FALSE,
                 !.calls = @ \o <<Made("stopAgentLoop"), Made("quotaExceeded")>>]
  ELSE [i EXCEPT !.pc = "idle", !.calls = Append(@, Made("error"))]
SendPromptRejects(unauthorized) ==
  /\ itn.pc = "sendPrompt"
  /\ SetItn(sendPromptRejected(itn, unauthorized))

\* `await postProcess` settles: the finally block calls handleEndOfLoop if
\* the agent is running.
postProcessSettled(i) ==
  [i EXCEPT !.pc = "idle",
            !.calls = IF i.isRunning THEN Append(@, Made("handleEndOfLoop")) ELSE @]
PostProcessSettles ==
  /\ itn.pc = "postProcess"
  /\ SetItn(postProcessSettled(itn))

NextTok ==
  \/ \E g \in BOOLEAN : TokStart(g)
  \/ TokStop
  \/ TokIteration
  \/ \E v \in Tokens \cup {undefined} : GetTokenResolves(v)
  \/ GetTokenRejects
  \/ SendPromptResolves
  \/ \E unauthorized \in BOOLEAN : SendPromptRejects(unauthorized)
  \/ PostProcessSettles

SpecTok == Init /\ [][NextTok]_<<vars, rvars, fvars>>

\* ================= appendMemory (handlers/utils.ts) =================
\* The memory of agent a1 in the store, and the appendMemory calls the
\* handlers of a1 and a2 make on it, one call each.
Target == "a1"
Memories == {<<>>, <<"m">>}                 \* what the store holds at first
Contents == {<<"x">>, <<"y">>}
Separators == {<<"\n">>, <<",">>}           \* the default, and another

\* context.appendMemory of the handler of agentId (handlers/javascript.ts),
\* called with the arguments args (targetId, content, separator; content is
\* undefined and separator the default when they are not given): with one
\* argument it is the content for the handler's own agent.  The arguments
\* of utils.appendMemory it calls.
contextAppendMemory(agentId, args) ==
  LET separator == IF Len(args) >= 3 THEN args[3] ELSE <<"\n">>
  IN IF Len(args) < 2
     THEN [agentId |-> agentId, content |-> args[1], separator |-> separator]
     ELSE [agentId |-> args[1], content |-> args[2], separator |-> separator]

\* The template string of appendMemory: an empty memory is falsy.
newMemoryOf(currentMemory, separator, content) ==
  IF currentMemory # <<>> THEN currentMemory \o separator \o content ELSE content

NoCall == [pc |-> "none", content |-> <<>>, separator |-> <<>>, newMemory |-> <<>>]

SetMem(m) == mem' = m /\ UNCHANGED <<vars, rvars, cvars, pvars, avars, tvars, qvars>>
SetCall(c, call) == SetMem([mem EXCEPT !.calls[c] = call])

\* The store holds m for the agent, as the user or an earlier iteration
\* left it; base keeps it for the properties.
MemStored(m) ==
  /\ mem.pc = "none"
  /\ SetMem([pc |-> "open", memory |-> m, base |-> m, calls |-> [c \in Agents |-> NoCall]])

\* The handler of agent c calls appendMemory with one argument or with a
\* target: utils.appendMemory runs up to `await fetchAgentMemory`.
AppendMemory(c, args) ==
  /\ mem.pc = "open" /\ mem.calls[c].pc = "none"
  /\ \E a \in {contextAppendMemory(c, args)} :
       /\ a.agentId = Target
       /\ SetCall(c, [NoCall EXCEPT !.pc = "fetch", !.content = a.content,
                                    !.separator = a.separator])

\* fetchAgentMemory resolves to what the store holds: the new memory is
\* made and handed to saveAgentMemory, which is awaited.
FetchResolves(c) ==
  /\ mem.pc = "open" /\ mem.calls[c].pc = "fetch"
  /\ SetCall(c, [mem.calls[c] EXCEPT
                   !.pc = "save",
                   !.newMemory = newMemoryOf(mem.memory, mem.calls[c].separator,
                                             mem.calls[c].content)])

\* saveAgentMemory resolves: the store holds the new memory.
MemSaveResolves(c) ==
  /\ mem.pc = "open" /\ mem.calls[c].pc = "save"
  /\ SetMem([mem EXCEPT !.memory = mem.calls[c].newMemory, !.calls[c].pc = "done"])

\* fetchAgentMemory or saveAgentMemory rejects: the catch block logs it.
MemRejects(c) ==
  /\ mem.pc = "open" /\ mem.calls[c].pc \in {"fetch", "save"}
  /\ SetCall(c, [mem.calls[c] EXCEPT !.pc = "failed"])

NextMem ==
  \/ \E m \in Memories : MemStored(m)
  \/ \E c \in Agents, content \in Contents, separator \in Separators :
       \/ AppendMemory(c, <<content>>)
       \/ AppendMemory(c, <<Target, content>>)
       \/ AppendMemory(c, <<Target, content, separator>>)
  \/ \E c \in Agents : FetchResolves(c)
  \/ \E c \in Agents : MemSaveResolves(c)
  \/ \E c \in Agents : MemRejects(c)

SpecMem == Init /\ [][NextMem]_<<vars, rvars, fvars>>

\* ======================= properties =======================
Emitted == {out[i] : i \in 1..Len(out)}
Running(a) == isAgentLoopRunning(activeLoops, a)
Suspended(a, pcs) ==
  BagCardinality([t \in {x \in TasksOf(a) : x.pc \in pcs} |-> tasks[t]])
StoppedByStop(a) == out # <<>> /\ out[1] = Status(a, "stopped", "stop")

\* C1: iterations of one agent never overlap: a timer tick of A begins an
\* iteration of A only when no iteration of A is in flight (awaiting the
\* prompt, the model or the handler); a tick that fires meanwhile is dropped.
C1_IterationsNeverOverlap ==
  [][\A a \in Agents : Tick(a) => Suspended(a, IterPcs) = 0]_vars

\* C2: a second start(A) issued while a first one is still awaiting the
\* configuration store or the stream request does nothing: at most one start
\* call of an agent is ever suspended on its way to registering the agent.
C2_SecondStartDoesNothing == \A a \in Agents : Suspended(a, {"starting"}) <= 1

C4_FailedStartLeavesStopped ==
  \A a \in Agents :
    Thrown(a) \in Emitted => ~Running(a) /\ ~HasTimer(a) /\ holders[a] = {}

\* C5: when an iteration of A ends in the quota error, at the quota-exceeded
\* notification A is not running, has no armed timer and holds no stream, and
\* exactly one notification, carrying A's id, is emitted.
C5_QuotaStopsTheLoop ==
  \A a \in Agents :
    Quota(a) \in Emitted =>
      /\ ~Running(a) /\ ~HasTimer(a) /\ holders[a] = {}
      /\ Len(out) = 2 /\ out[2] = Quota(a) /\ out[1].kind # "quotaExceeded"

\* C6: an iteration of A that fails with an error other than the quota error
\* changes no loop entry, timer, stream hold or recorder state, emits no
\* notification and throws nothing to its caller: a running A stays running
\* with its timer, and a startAgentLoop awaiting it goes on to arm the timer.
C6_FailureIsContained ==
  [][\A t \in BagToSet(tasks) :
       IterError(t) =>
         /\ UNCHANGED <<activeLoops, leaked, holders, state, recorders, orphans, ops>>
         /\ out' = <<Warn(t.agent, "iteration failed")>>
         /\ Running(t.agent) => isAgentLoopRunning(activeLoops', t.agent)
         /\ t.kind = "start" => BagIn([t EXCEPT !.pc = "arm"], tasks')
         /\ t.kind = "tick" => tasks' = Drop(tasks, t)]_vars
\* A timer-driven iteration of a1 failed; a1 keeps running with its timer,
\* next to a running a2.
C6_Witness ==
  /\ out = <<Warn("a1", "iteration failed")>>
  /\ Running("a1") /\ activeLoops["a1"].intervalId = 1
  /\ Running("a2")
  /\ TasksOf("a1") = {}

\* C7: an iteration of A that was in flight when stop(A) completed does not
\* hand the response to A's handler.  An iteration begins only while A runs, so
\* A not running when the response arrives means A was stopped meanwhile:
\* the response is dispatched only while A is running.
C7_NoDispatchAfterStop ==
  [][\A t \in BagToSet(tasks) : IterDispatch(t) => Running(t.agent)]_vars

\* C8: when stop(A) returns, isRunning(A) is false and A is not among the
\* running agent ids, whatever iteration of A is still in flight.
C8_StoppedAtOnce ==
  \A a \in Agents :
    StoppedByStop(a) => ~Running(a) /\ a \notin getRunningAgentIds(activeLoops)
\* stop(a1) returned while an iteration of a1 awaits the model.
C8_Witness ==
  /\ out = <<Status("a1", "stopped", "stop")>>
  /\ \E t \in TasksOf("a1") : t.pc = "flight"

\* C9: stop(A) on an agent that is not running only logs a warning: no loop
\* entry, timer, stream hold or recorder state changes, no call is left
\* suspended and no notification is emitted.
C9_StopOfStoppedIsNoOp ==
  [][\A a \in Agents :
       (~Running(a) /\ StopAgentLoop(a)) =>
         /\ UNCHANGED <<activeLoops, leaked, tasks, holders, state, recorders, orphans, ops>>
         /\ out' = <<Warn(a, "not running")>>]_vars
\* stop(a2) on a stopped a2 while a1 runs and the recorder is recording a clip.
C9_Witness ==
  /\ out = <<Warn("a2", "not running")>>
  /\ Running("a1") /\ state = "RECORDING" /\ recorders["screen"] = "recording"

\* C10: when stop(A) emits "stopped", A's timer is cleared, A's streams are
\* released and, if no agent is running any more, the recording manager is
\* IDLE with no finalization still in flight.
C10_StoppedMeansTornDown ==
  \A a \in Agents :
    StoppedByStop(a) =>
      /\ activeLoops[a].intervalId = 0 /\ holders[a] = {}
      /\ getRunningAgentIds(activeLoops) = {} => (state = "IDLE" /\ ops = EmptyBag)

\* C11: initialize() is invoked exactly when the running-agent count goes from
\* 0 to 1, for every interleaving of starts and stops of different agents: a
\* start that registers its agent (the only call in progress for that agent)
\* invokes initialize() if and only if no agent is running at that moment.
C11_InitializeOnFirstAgent ==
  [][\A t \in BagToSet(tasks) :
       (StartRegisters(t) /\ TasksOf(t.agent) = {t} /\ tasks[t] = 1)
         => (t.first <=> getRunningAgentIds(activeLoops) = {})]_vars

\* C12: as long as startClip() was never called no clip is saved, whatever
\* initialize(), handleEndOfLoop(), addMarker(), stopClip() and forceStop()
\* calls were made; initialize() and three handleEndOfLoop() calls on a live
\* stream leave the controller BUFFERING with nothing saved.
C12_NoStartClipNoClip ==
  [][/\ ~Started(hist') => saved' = <<>>
     /\ (hist' = Seq12 /\ streams' # {}) => (rec'.state = "BUFFERING" /\ nclips' = 0)]_rvars

C12_Witness ==
  /\ hist = Seq12 /\ rec.state = "BUFFERING"
  /\ \E s \in streams : media[s][rec.recorders[s]].status = "recording"

C15_IdleMarkerReachesAClip ==
  (1 \in marks.added /\ marks.idle) => (1 \in rec.pendingMarkers \/ marks.clipped.n >= 1)

\* C16: a marker goes to the clips of at most one session (one buffer's
\* recorders), and when a finalization completes no marker is pending any
\* more, in every interleaving of calls, events and saves.
C16_MarkerConsumedOnce ==
  [][/\ marks'.clipped.n <= 1
     /\ BagCardinality(fins') < BagCardinality(fins) => rec'.pendingMarkers = {}]_rvars

\* C17: whatever stopClip() and forceStop() calls interleave: a finalization
\* that finds a recorder recording registers a stop listener on it and
\* packages nothing for that source in the same step; a clip packaged by a
\* stop listener is packaged in the step of the stop event and holds every
\* chunk collected and the flush; a clip packaged without waiting comes from
\* a recorder that was no longer recording, in the step of the call, with
\* the chunks collected so far.
C17_PackagedAfterStopEvent ==
  [][/\ \A s \in Sources, g \in Gens :
          (/\ \/ DoStopClip /\ rec.state = "RECORDING"
              \/ DoForceStop /\ rec.state # "BUFFERING"
           /\ rec.recorders[s] = g /\ media[s][g].status = "recording")
            => /\ Listened([fins |-> fins'], s, g)
               /\ \A i \in 1..Len(saved') : saved'[i].src # s
     /\ \A i \in 1..Len(saved') :
          LET c == saved'[i]
              o == media[c.src][c.gen]
          IN /\ c.n = o.n
             /\ c.waited => /\ o.status = "stopping" /\ Listened(World, c.src, c.gen)
                             /\ ~Listened([fins |-> fins'], c.src, c.gen)
                             /\ c.final
             /\ ~c.waited => /\ o.status # "recording" /\ c.final = o.final
                              /\ (DoStopClip \/ DoForceStop)]_rvars

\* Two finalizations are suspended and the stop listener of one packages a
\* clip with timeslice chunks and the flush.
C17_Witness ==
  /\ BagCardinality(fins) = 2
  /\ \E i \in 1..Len(saved) : saved[i].waited /\ saved[i].n = 1 /\ saved[i].final

\* C18: transitions are atomic: at most one stopClip() or forceStop() is
\* suspended at a time, and while one is, a call of initialize,
\* handleEndOfLoop, startClip, stopClip or forceStop changes nothing.
C18_TransitionsAtomic ==
  [][/\ BagCardinality(fins') <= 1
     /\ (/\ fins # EmptyBag
         /\ DoInitialize \/ DoHandleEndOfLoop \/ DoStartClip \/ DoStopClip \/ DoForceStop)
          => UNCHANGED <<rec, media, fins>>]_rvars

\* C19: in a session of screen and camera, when saveRecordingToDb rejects for
\* one source: the job of the other source is left as it is, when it still
\* waits for its stop event that event packages the clip with every chunk
\* and the flush, and when the rejected job was the last one the
\* finalization completes with no job left and the controller in its target
\* state (BUFFERING after stopClip, IDLE after forceStop).
C19_FailedSaveIsContained ==
  [][/\ \A f \in BagToSet(fins), s \in Sources :
          SaveRejects(f, s)
            => LET f1 == [f EXCEPT !.part[s] = "failed"]
               IN IF Done(f1)
                  THEN /\ fins' = EmptyBag
                       /\ rec'.state = IF f.op = "stopClip" THEN "BUFFERING" ELSE "IDLE"
                  ELSE fins' = SetToBag({f1}) /\ rec' = rec /\ media' = media
     /\ \A s \in Sources, g \in Gens :
          (StopEvent(s, g) /\ Listened(World, s, g))
            => \E i \in 1..Len(saved') :
                 /\ saved'[i].src = s /\ saved'[i].gen = g
                 /\ saved'[i].final /\ saved'[i].n = media[s][g].n]_rvars

\* The save of the screen clip has failed and the stop event of the camera
\* recorder packages the camera clip, complete.
C19_Witness ==
  /\ \E f \in BagToSet(fins) : f.part["screen"] = "failed" /\ f.part["camera"] = "save"
  /\ \E i \in 1..Len(saved) :
       saved[i].src = "camera" /\ saved[i].waited /\ saved[i].final /\ saved[i].n = 1

\* C20: in every state the sources the session holds (a recorder in
\* this.recorders and an array in this.chunks) are sources whose stream is
\* granted.
C20_SessionWithinGrantedStreams ==
  \A s \in Sources : (rec.recorders[s] # 0 /\ rec.chunks[s]) => s \in streams

\* The placeholders of a prompt from left to right: processor and index.
RECURSIVE Placeholders(_, _)
Placeholders(str, i) ==
  IF i >= Len(str) THEN <<>>
  ELSE LET here == {k \in Keys : exec(regex(k), str, i) = i}
       IN IF here = {} THEN Placeholders(str, i + 1)
          ELSE LET k == CHOOSE k \in here : TRUE
               IN <<[key |-> k, index |-> i]>> \o Placeholders(str, i + Len(regex(k)))
\* The handler calls of one processor, in the order they were made.
CallsOf(k) == LET Mine(c) == c.key = k IN SelectSeq(asm.calls, Mine)
\* Every placeholder of the prompt given had one handler call, and no other
\* call was made.
OneCallEach(occ) ==
  \A k \in Keys : Len(CallsOf(k)) = Cardinality({j \in DOMAIN occ : occ[j].key = k})
\* What the handler resolved to for the j-th placeholder of the prompt given.
ResultOf(occ, j) ==
  CallsOf(occ[j].key)[Cardinality({i \in 1..j : occ[i].key = occ[j].key})].result

RECURSIVE ImagesInTextOrder(_, _)
ImagesInTextOrder(occ, j) ==
  IF j > Len(occ) THEN <<>> ELSE ResultOf(occ, j).images \o ImagesInTextOrder(occ, j + 1)
C22_ImagesInTextOrder ==
  LET occ == Placeholders(asm.systemPrompt, 0)
  IN (asm.pc = "returned" /\ OneCallEach(occ)) => asm.images = ImagesInTextOrder(occ, 1)

\* C23: the prompt returned is the prompt given, split into literal text and
\* placeholders, with each placeholder replaced by what its handler resolved
\* to, the handler called once for each: literal text and unknown tokens
\* stay, and what a handler gave is not looked into again.
RECURSIVE Rejoin(_, _, _, _)
Rejoin(str, occ, j, i) ==
  IF j > Len(occ) THEN substring(str, i, Len(str))
  ELSE substring(str, i, occ[j].index)
       \o ResultOf(occ, j).replacementText
       \o Rejoin(str, occ, j + 1, occ[j].index + Len(regex(occ[j].key)))
C23_EqualsSplitMapJoin ==
  asm.pc = "returned" =>
    LET occ == Placeholders(asm.systemPrompt, 0)
    IN /\ OneCallEach(occ)
       /\ asm.modifiedPrompt = Rejoin(asm.systemPrompt, occ, 1, 0)

\* C24: a call of postProcess runs exactly one runtime: executePython if and
\* only if the code, after its leading whitespace, starts with '#python',
\* executeJavaScript otherwise; it returns the boolean that runtime resolved
\* to, and false if the runtime threw, the other runtime not being run.
MarkerAfterWhiteSpace(code) ==
  \E k \in 0..Len(code) :
    /\ \A i \in 1..k : code[i] \in WhiteSpace
    /\ Len(code) >= k + Len(PythonMarker)
    /\ \A i \in 1..Len(PythonMarker) : code[k + i] = PythonMarker[i]
C24_OneRuntimeByMarker ==
  /\ pp.pc # "none"
       => pp.ran = <<IF MarkerAfterWhiteSpace(pp.code)
                     THEN "executePython" ELSE "executeJavaScript">>
  /\ pp.pc = "returned"
       => pp.result = (IF pp.got = "throws" THEN "false" ELSE pp.got)
\* A code with whitespace before the marker went to executePython, which
\* threw: postProcess returned false.
C24_Witness ==
  /\ pp.pc = "returned" /\ pp.got = "throws" /\ pp.result = "false"
  /\ pp.ran = <<"executePython">>
  /\ pp.code # <<>> /\ pp.code[1] \in WhiteSpace

\* C25: a successful start(A) grants the streams, initializes the recorder,
\* registers the entry, runs one complete iteration and only then arms the
\* timer: no timer-driven iteration of A begins while the first iteration of
\* a start(A) call is still in flight.
C25_NoTickBeforeFirstIterationEnds ==
  [][\A a \in Agents :
       (Tick(a) /\ tasks' # tasks)
         => ~\E t \in TasksOf(a) : t.kind = "start" /\ t.pc \in IterPcs]_vars

\* C26: an iteration of a running agent that reached the dispatch of the
\* response calls handleEndOfLoop exactly once as it ends, whether the
\* handler succeeded or failed, and at no other step; while the recorder is
\* BUFFERING that call stops the recorders of the current buffer and starts
\* a recorder on every live stream.
\* The step ends an iteration that was in postProcess: it is off the bag of
\* suspended calls, or its startAgentLoop goes on.
EndsAfterDispatch(t) == t.pc = "post" /\ CopiesIn(t, tasks') < CopiesIn(t, tasks)
Notifications(o, a) == Cardinality({i \in 1..Len(o) : o[i] = EndOfLoop(a)})
C26_EndOfLoopAfterDispatch ==
  [][/\ \A t \in BagToSet(tasks) :
          (EndsAfterDispatch(t) /\ isAgentLoopRunning(activeLoops, t.agent))
            => /\ Notifications(out', t.agent) = 1
               /\ state = "BUFFERING"
                    => /\ state' = (IF \E s \in Sources : Live(holders, s)
                                    THEN "BUFFERING" ELSE "IDLE")
                       /\ \A s \in Sources :
                            recorders'[s] = (IF Live(holders, s) THEN "recording"
                                             ELSE IF recorders[s] = "none" THEN "none"
                                             ELSE "inactive")
               /\ state # "BUFFERING" => UNCHANGED <<state, recorders, orphans>>
     /\ \A i \in 1..Len(out') :
          out'[i].kind = "endOfLoop"
            => /\ isAgentLoopRunning(activeLoops, out'[i].agent)
               /\ \E t \in TasksOf(out'[i].agent) : EndsAfterDispatch(t)]_vars
\* The first iteration of a1 ended after its dispatch while the recorder was
\* buffering the screen: the end of loop was notified and a1 goes on to arm
\* its timer.
C26_Witness ==
  /\ out = <<EndOfLoop("a1")>>
  /\ state = "BUFFERING" /\ recorders["screen"] = "recording"
  /\ \E t \in TasksOf("a1") : t.pc = "arm"

\* C27: every iteration reads the agent's record and its code from the
\* configuration store as it begins, and what the user edited while the agent
\* runs is in force from the next tick on: the iteration the tick begins
\* works with the store's prompt, model and code, and the timer runs with the
\* store's loop interval.
C27_EditsInForceAtNextTick ==
  [][/\ CfgIterReadsAgent => iter'.it = getAgent(store)
     /\ CfgIterReadsCode => iter'.code = getAgentCode(store)
     /\ CfgTick => iter'.period = store.loop_interval_seconds * 1000]_fvars

\* C28: when a stopClip() issued in RECORDING completes (at once, or with the
\* last save job of its suspended call) and a stream is present, the
\* controller is BUFFERING, every present source has a recorder that was
\* just started with an empty chunk array, and no marker is pending;
\* stopClip() issued in IDLE or BUFFERING saves nothing and changes nothing.
C28_StopClipStartsFreshBuffer ==
  [][/\ (/\ \/ (DoStopClip /\ rec.state = "RECORDING" /\ fins' = fins)
             \/ \E f \in BagToSet(fins), s \in Sources :
                  /\ f.op = "stopClip" /\ Done([f EXCEPT !.part[s] = "saved"])
                  /\ (SaveResolves(f, s) \/ SaveRejects(f, s))
         /\ streams # {})
          => /\ rec'.state = "BUFFERING"
             /\ rec'.pendingMarkers = {}
             /\ \A s \in streams :
                  /\ rec'.recorders[s] # 0 /\ rec'.chunks[s]
                  /\ media'[s][rec'.recorders[s]] = Fresh
             /\ \A s \in Sources \ streams : rec'.recorders[s] = 0 /\ ~rec'.chunks[s]
     /\ (DoStopClip /\ rec.state # "RECORDING")
          => (UNCHANGED <<rec, media, fins>> /\ saved' = <<>>)]_rvars

\* A stopClip() has completed: the marker went to its clip, a new buffer
\* records and nothing is pending.
C28_Witness ==
  /\ rec.state = "BUFFERING" /\ fins = EmptyBag /\ rec.pendingMarkers = {}
  /\ marks.clipped.n = 1
  /\ \E s \in streams : media[s][rec.recorders[s]] = Fresh

\* C29: startClip() issued in BUFFERING changes the state to RECORDING and
\* nothing else: the recorders, their chunks and the pending markers stay;
\* startClip() issued in IDLE or RECORDING changes nothing.
C29_StartClipChangesStateOnly ==
  [][DoStartClip
       => /\ rec' = IF rec.state = "BUFFERING" THEN [rec EXCEPT !.state = "RECORDING"] ELSE rec
          /\ media' = media /\ fins' = fins /\ saved' = <<>>]_rvars

\* startClip() was called on a buffer that holds chunks, with a marker pending.
C29_Witness ==
  /\ rec.state = "RECORDING" /\ fins = EmptyBag /\ 1 \in rec.pendingMarkers
  /\ \E s \in streams :
       /\ rec.chunks[s] /\ media[s][rec.recorders[s]].n = 1
       /\ media[s][rec.recorders[s]].status = "recording"

\* C30: when the controller is IDLE and no stopClip() or forceStop() is
\* suspended, the recorder map and the chunk map are empty.
C30_NoSessionWhenIdle ==
  (rec.state = "IDLE" /\ fins = EmptyBag)
    => \A s \in Sources : rec.recorders[s] = 0 /\ ~rec.chunks[s]
\* The stream kinds the placeholders of a prompt stand for, as a set.
KindOf(key) == IF key = "CAMERA" THEN "camera" ELSE "screenVideo"
RequiredKinds(prompt) ==
  LET occ == Placeholders(prompt, 0) IN {KindOf(occ[j].key) : j \in DOMAIN occ}

\* C31: a start issues at most one stream request, none when the prompt has
\* no stream-backed placeholder; the request names each stream kind that a
\* placeholder of the prompt stands for exactly once and no other kind, also
\* when two placeholders stand for the same kind; the registered agent holds
\* these kinds.
C31_OneRequestEachKindOnce ==
  req.pc # "none" =>
    LET K == RequiredKinds(req.system_prompt)
    IN /\ Len(req.requests) <= 1
       /\ req.requests = <<>> <=> K = {}
       /\ \A n \in 1..Len(req.requests) :
            LET r == req.requests[n]
            IN /\ \A k \in K : Cardinality({i \in 1..Len(r) : r[i] = k}) = 1
               /\ \A i \in 1..Len(r) : r[i] \in K
       /\ req.pc = "registered" => req.held = K

\* The iteration in flight, or the last one, is one whose supplier failed.
TokenFailed(i) == i.pc # "stopped" /\ \E k \in 1..Len(i.calls) : i.calls[k] = Made("warn")
Sends(i) == {k \in 1..Len(i.calls) : i.calls[k].call = "sendPrompt"}
\* The same iteration of an agent started without a supplier: no getToken
\* call, no warning.
NoSupplier(i) == [i EXCEPT !.getToken = FALSE, !.calls = SubSeq(@, 3, Len(@))]

\* C32: when the token supplier fails in an iteration of a running agent the
\* iteration goes on: sendPrompt is called in that step, once in the
\* iteration and with no token, and every later step of the iteration
\* (dispatch to postProcess, handleEndOfLoop if the agent runs, the handling
\* of a sendPrompt error) is the step the iteration of an agent without a
\* supplier takes.
C32_TokenFailureIsNotFatal ==
  [][/\ GetTokenRejects
          => /\ itn'.pc = "sendPrompt" /\ itn'.isRunning = itn.isRunning
             /\ NoSupplier(itn').calls = <<SendPrompt(undefined)>>
     /\ TokenFailed(itn')
          => \A k \in Sends(itn') : k = 3 /\ itn'.calls[k] = SendPrompt(undefined)
     /\ (TokenFailed(itn) /\ SendPromptResolves)
          => /\ NoSupplier(itn') = sendPromptResolved(NoSupplier(itn))
             /\ itn'.calls[Len(itn'.calls)] = Made("postProcess")
     /\ \A u \in BOOLEAN :
          (TokenFailed(itn) /\ SendPromptRejects(u))
            => NoSupplier(itn') = sendPromptRejected(NoSupplier(itn), u)
     /\ (TokenFailed(itn) /\ PostProcessSettles)
          => /\ NoSupplier(itn') = postProcessSettled(NoSupplier(itn))
             /\ itn.isRunning => itn'.calls[Len(itn'.calls)] = Made("handleEndOfLoop")]_tvars

\* The supplier failed in the second iteration of a running agent; the
\* prompt was sent without a token, the response dispatched and the end of
\* loop notified.
C32_Witness ==
  /\ itn.pc = "idle" /\ itn.isRunning /\ itn.n = 2
  /\ itn.calls = <<Made("getToken"), Made("warn"), SendPrompt(undefined),
                   Made("postProcess"), Made("handleEndOfLoop")>>

\* C33: in every state an agent has at most one armed interval timer, and an
\* agent that is not running has none, whatever stop or quota stop falls
\* into the first iteration of a start.
C33_AtMostOneTimerNoneWhenStopped ==
  \A a \in Agents :
    /\ ~(a \in leaked /\ activeLoops[a].intervalId # 0)
    /\ ~Running(a) => ~HasTimer(a)

\* C34: the status notifications follow isRunning: a step that emits a status
\* of A leaves isRunning(A) true if and only if the status is 'running' (no
\* 'stopped' is emitted for an agent that stays running), and isRunning(A)
\* changes in no step that does not emit a status of A.  The last status
\* emitted for A then tells whether A runs.
C34_StatusFollowsIsRunning ==
  [][\A a \in Agents :
       /\ \A i \in 1..Len(out') :
            (out'[i].kind = "status" /\ out'[i].agent = a)
              => (out'[i].what = "running" <=> isAgentLoopRunning(activeLoops', a))
       /\ isAgentLoopRunning(activeLoops', a) # Running(a)
            => \E i \in 1..Len(out') : out'[i].kind = "status" /\ out'[i].agent = a]_vars

\* C35: whenever an agent is running, the stream of a recordable source is
\* granted and no stopClip / forceStop is in flight, the recording manager is
\* BUFFERING or RECORDING.
C35_RecorderOnWhileAgentsRun ==
  (/\ getRunningAgentIds(activeLoops) # {}
   /\ \E s \in Sources : Live(holders, s)
   /\ ops = EmptyBag)
    => state \in {"BUFFERING", "RECORDING"}

\* C36: no marker is lost: a step that takes a marker off the pending list
\* leaves it attached to a clip that was saved, in that step or before it
\* by the finalization in progress.
C36_NoMarkerLost ==
  [][(1 \in rec.pendingMarkers /\ 1 \notin rec'.pendingMarkers)
       => marks'.clipped.n >= 1]_rvars

\* C37: a session is packaged once per source, after the flush: a clip that
\* is packaged without waiting for the stop event comes from a recorder that
\* has delivered its flush and that no other finalization is waiting for.
C37_OneClipPerSession ==
  [][\A i \in 1..Len(saved') :
       LET c == saved'[i]
       IN ~c.waited => /\ ~Listened(World, c.src, c.gen)
                       /\ media[c.src][c.gen].status # "stopping"]_rvars

Completed(c) == mem.calls[c].pc = "done"
Appended(m, c) == newMemoryOf(m, mem.calls[c].separator, mem.calls[c].content)
C39_AppendLosesNoUpdate ==
  mem.pc = "open" =>
    /\ \A c \in Agents :
         (Completed(c) /\ \A d \in Agents \ {c} : mem.calls[d].pc \in {"none", "failed"})
           => mem.memory = Appended(mem.base, c)
    /\ (\A c \in Agents : Completed(c))
         => \E c, d \in Agents : c # d /\ mem.memory = Appended(Appended(mem.base, c), d)

\* C40: while A is running the StreamManager holds the streams A requires,
\* and a step releases the streams of A only when it leaves A not running:
\* stop(A), a quota stop of A, or a failed start of an A that does not run.
C40_RunningAgentHoldsItsStreams ==
  [][\A a \in Agents :
       /\ isAgentLoopRunning(activeLoops', a) => requiredStreams(a) \subseteq holders'[a]
       /\ (holders[a] # {} /\ holders'[a] = {}) => ~isAgentLoopRunning(activeLoops', a)]_vars

====
